---- MODULE Spec2Model ----
(***************************************************************************)
(* The YouTube VSL workflow: download-video -> get-transcript ->           *)
(* extract-vsl-script -> save-vsl-analysis, with the three external        *)
(* providers (ytdl, Deepgram, generateObject) as nondeterministic          *)
(* environments and the three output directories as storage.               *)
(***************************************************************************)
EXTENDS Integers, Sequences, FiniteSets, TLC

VARIABLES trigger, pc, steps, error, result, locals, log,
          dirs, videoDir, transcriptionDir, vslAnalysisDir

vars == <<trigger, pc, steps, error, result, locals, log,
          dirs, videoDir, transcriptionDir, vslAnalysisDir>>

storage == <<dirs, videoDir, transcriptionDir, vslAnalysisDir>>

(***************************************************************************)
(* Bounds of the model.                                                    *)
(***************************************************************************)
MaxTranscriptLen == 2

MaxFormats == 2

MaxSections == 1

MaxStatSections == 4

MaxRuns == 2

(***************************************************************************)
(* Nullable / optional values: null and undefined are the empty tuple, a   *)
(* present value v is <<v>>.                                               *)
(***************************************************************************)
None == <<>>

Some(v) == <<v>>

Min(a, b) == IF a < b THEN a ELSE b

(***************************************************************************)
(* Strings that the code inspects are sequences of characters.             *)
(***************************************************************************)
Whitespace == {" "}

RECURSIVE SeqsUpTo(_, _)
SeqsUpTo(S, n) ==
  IF n = 0 THEN {<<>>}
  ELSE LET shorter == SeqsUpTo(S, n - 1)
       IN shorter \cup {Append(s, c) : s \in shorter, c \in S}

RECURSIVE trimStart(_)
trimStart(s) ==
  IF s = <<>> THEN s
  ELSE IF Head(s) \in Whitespace THEN trimStart(Tail(s)) ELSE s

RECURSIVE trimEnd(_)
trimEnd(s) ==
  IF s = <<>> THEN s
  ELSE IF s[Len(s)] \in Whitespace THEN trimEnd(SubSeq(s, 1, Len(s) - 1)) ELSE s

trim(s) == trimEnd(trimStart(s))

IsEmptyTranscriptNoTrim(t) ==
  IF t = None THEN TRUE ELSE t[1] = <<>>

\* !transcript || transcript.trim().length === 0, on a possibly undefined value
IsEmptyTranscript(t) ==
  IF t = None THEN TRUE
  ELSE IF t[1] = <<>> THEN TRUE
  ELSE Len(trim(t[1])) = 0

(***************************************************************************)
(* The zod schema of the structured extraction.                            *)
(***************************************************************************)
PurposeEnum ==
  {"hook", "problem_identification", "solution_introduction",
   "credibility_building", "social_proof", "objection_handling",
   "urgency_scarcity", "call_to_action", "bonus_offer", "guarantee",
   "summary_recap"}

ToneEnum ==
  {"urgent", "empathetic", "authoritative", "conversational", "persuasive",
   "educational", "emotional", "logical", "testimonial", "reassuring"}

vslSectionSchema(section) ==
  /\ section.purpose \in PurposeEnum
  /\ section.tone \in ToneEnum

overallRatingSchemaNoMax(r) == r.num >= 1 * r.den

\* A number n/d; z.number().min(1).max(10) accepts every number in the range.
overallRatingSchema(r) ==
  /\ r.num >= 1 * r.den
  /\ r.num <= 10 * r.den

vslScriptSchema(script) ==
  /\ \A i \in DOMAIN script.sections : vslSectionSchema(script.sections[i])
  /\ overallRatingSchema(script.effectiveness.overallRating)

IsInteger(r) == r.num % r.den = 0

(***************************************************************************)
(* Paths: <<directory, title, video id, suffix, extension>>; the empty     *)
(* string is the empty tuple.                                              *)
(***************************************************************************)
EmptyString == <<>>

\* the characters of \w that titles of the model use
WordChars == {"a", "_"}

RECURSIVE stripTitle(_)
stripTitle(t) ==
  IF t = <<>> THEN <<>>
  ELSE IF Head(t) \in WordChars \cup Whitespace \cup {"-"}
       THEN <<Head(t)>> \o stripTitle(Tail(t))
       ELSE stripTitle(Tail(t))

RECURSIVE collapseWhitespace(_)
collapseWhitespace(t) ==
  IF t = <<>> THEN <<>>
  ELSE IF Head(t) \in Whitespace
       THEN <<"_">> \o collapseWhitespace(trimStart(t))
       ELSE <<Head(t)>> \o collapseWhitespace(Tail(t))

sanitizeTitle(t) == collapseWhitespace(stripTitle(t))

audioFilePath(title, videoId, container) ==
  <<"video", sanitizeTitle(title), videoId, "", container>>

\* path.basename(videoFileName, path.extname(videoFileName)) + "_transcript.txt"
transcriptFilePath(videoFileName) ==
  <<"transcription", videoFileName[2], videoFileName[3], "_transcript", "txt">>

vslFilePath(videoId) == <<"vsl-analysis", <<>>, videoId, "_vsl_analysis", "json">>

(***************************************************************************)
(* Format selection of downloadVideo.                                      *)
(***************************************************************************)
audioFormatsWithVideo(formats) ==
  SelectSeq(formats, LAMBDA f : f.hasAudio)

audioFormats(formats) ==
  SelectSeq(formats, LAMBDA f : f.hasAudio /\ ~f.hasVideo)

\* (b.audioBitrate || 0) - (a.audioBitrate || 0); a missing bitrate is None
bitrateOrZero(f) == IF f.audioBitrate = None THEN 0 ELSE f.audioBitrate[1]

insertByBitrateUnstable(sorted, f) ==
  LET stop == CHOOSE n \in 0..Len(sorted) :
                /\ \A i \in 1..n : bitrateOrZero(sorted[i]) > bitrateOrZero(f)
                /\ (n < Len(sorted) => bitrateOrZero(sorted[n + 1]) <= bitrateOrZero(f))
  IN SubSeq(sorted, 1, stop) \o <<f>> \o SubSeq(sorted, stop + 1, Len(sorted))

\* Array.prototype.sort is stable: insert after every entry that is not smaller
insertByBitrate(sorted, f) ==
  LET stop == CHOOSE n \in 0..Len(sorted) :
                /\ \A i \in 1..n : bitrateOrZero(sorted[i]) >= bitrateOrZero(f)
                /\ (n < Len(sorted) => bitrateOrZero(sorted[n + 1]) < bitrateOrZero(f))
  IN SubSeq(sorted, 1, stop) \o <<f>> \o SubSeq(sorted, stop + 1, Len(sorted))

RECURSIVE sortByBitrate(_)
sortByBitrate(fs) ==
  IF fs = <<>> THEN <<>>
  ELSE \* the sorted prefix is a value bound once, then the last entry is inserted
       CHOOSE r \in {insertByBitrate(sorted, fs[Len(fs)]) :
                      sorted \in {sortByBitrate(SubSeq(fs, 1, Len(fs) - 1))}} : TRUE

bestAudioFormat(formats) == sortByBitrate(audioFormats(formats))[1]

containerOf(f) == IF f.container = None THEN "webm" ELSE f.container[1]

(***************************************************************************)
(* Statistics and summary of saveVSLStep.  A JavaScript object with string *)
(* keys is a sequence of <<key, value>> entries in insertion order.        *)
(***************************************************************************)
hasKey(acc, k) == \E i \in DOMAIN acc : acc[i][1] = k

incrementOverwrite(acc, k) ==
  IF hasKey(acc, k)
  THEN [i \in DOMAIN acc |-> IF acc[i][1] = k THEN <<k, 1>> ELSE acc[i]]
  ELSE Append(acc, <<k, 1>>)

\* acc[k] = (acc[k] || 0) + 1
increment(acc, k) ==
  IF hasKey(acc, k)
  THEN [i \in DOMAIN acc |-> IF acc[i][1] = k THEN <<k, acc[i][2] + 1>> ELSE acc[i]]
  ELSE Append(acc, <<k, 1>>)

RECURSIVE reduceCount(_, _)
reduceCount(keys, acc) ==
  IF keys = <<>> THEN acc
  ELSE reduceCount(Tail(keys), increment(acc, Head(keys)))

purposeBreakdown(sections) ==
  reduceCount([i \in DOMAIN sections |-> sections[i].purpose], <<>>)

toneBreakdown(sections) ==
  reduceCount([i \in DOMAIN sections |-> sections[i].tone], <<>>)

objectKeys(obj) == [i \in DOMAIN obj |-> obj[i][1]]

insertByCountUnstable(sorted, e) ==
  LET stop == CHOOSE n \in 0..Len(sorted) :
                /\ \A i \in 1..n : sorted[i][2] > e[2]
                /\ (n < Len(sorted) => sorted[n + 1][2] <= e[2])
  IN SubSeq(sorted, 1, stop) \o <<e>> \o SubSeq(sorted, stop + 1, Len(sorted))

\* .sort(([, a], [, b]) => b - a), a stable sort
insertByCount(sorted, e) ==
  LET stop == CHOOSE n \in 0..Len(sorted) :
                /\ \A i \in 1..n : sorted[i][2] >= e[2]
                /\ (n < Len(sorted) => sorted[n + 1][2] < e[2])
  IN SubSeq(sorted, 1, stop) \o <<e>> \o SubSeq(sorted, stop + 1, Len(sorted))

RECURSIVE sortByCount(_)
sortByCount(entries) ==
  IF entries = <<>> THEN <<>>
  ELSE \* the sorted prefix is a value bound once, then the last entry is inserted
       CHOOSE r \in {insertByCount(sorted, entries[Len(entries)]) :
                      sorted \in {sortByCount(SubSeq(entries, 1, Len(entries) - 1))}} : TRUE

DominantCount == 3

dominantTones(breakdown) ==
  LET sorted == sortByCount(breakdown)
  IN objectKeys(SubSeq(sorted, 1, Min(DominantCount, Len(sorted))))

vslAnalysis(inputData, analysisDate) ==
  [metadata |-> [videoId |-> inputData.videoId,
                 analysisDate |-> analysisDate,
                 transcriptSource |-> inputData.transcriptFileName],
   vslScript |-> inputData.vslScript,
   statistics |-> [totalSections |-> Len(inputData.vslScript.sections),
                   purposeBreakdown |-> purposeBreakdown(inputData.vslScript.sections),
                   toneBreakdown |-> toneBreakdown(inputData.vslScript.sections)]]

summaryOf(inputData, analysis) ==
  [totalSections |-> Len(inputData.vslScript.sections),
   mainPurposes |-> objectKeys(analysis.statistics.purposeBreakdown),
   dominantTones |-> dominantTones(analysis.statistics.toneBreakdown),
   effectivenessRating |-> inputData.vslScript.effectiveness.overallRating]

(***************************************************************************)
(* Inputs of a run and answers of the external collaborators.              *)
(***************************************************************************)
VideoIds == {"abc123", "xyz789"}

TranscriptChars == {" ", "a"}

Transcripts == SeqsUpTo(TranscriptChars, MaxTranscriptLen)

Titles == {<<"a">>, <<"a", "!", " ", " ", "a">>}

PriorTranscriptFile == <<"transcription", <<"a">>, "xyz789", "_transcript", "txt">>

VideoRecords ==
  [fullTranscript : {None} \cup {Some(t) : t \in Transcripts},
   transcriptFileName : {None, Some(EmptyString), Some(PriorTranscriptFile)}]

\* the input record of the first step: videoId, exists, videoRecord, keywords
Triggers ==
  [videoId : VideoIds,
   exists : BOOLEAN,
   videoRecord : {None} \cup {Some(r) : r \in VideoRecords},
   keywords : {None}]

Formats ==
  {[hasAudio |-> TRUE, hasVideo |-> TRUE, audioBitrate |-> Some(192), container |-> Some("mp4")],
   [hasAudio |-> TRUE, hasVideo |-> FALSE, audioBitrate |-> Some(128), container |-> Some("webm")],
   [hasAudio |-> TRUE, hasVideo |-> FALSE, audioBitrate |-> Some(128), container |-> Some("mp4")],
   [hasAudio |-> TRUE, hasVideo |-> FALSE, audioBitrate |-> Some(48), container |-> Some("webm")],
   [hasAudio |-> TRUE, hasVideo |-> FALSE, audioBitrate |-> None, container |-> None]}

VideoInfos == [title : Titles, formats : SeqsUpTo(Formats, MaxFormats)]

SectionSample ==
  {[purpose |-> "hook", tone |-> "urgent"],
   [purpose |-> "call_to_action", tone |-> "reassuring"],
   [purpose |-> "teaser", tone |-> "urgent"],
   [purpose |-> "hook", tone |-> "angry"]}

RatingSample ==
  {[num |-> 0, den |-> 1], [num |-> 1, den |-> 1], [num |-> 15, den |-> 2],
   [num |-> 10, den |-> 1], [num |-> 21, den |-> 2], [num |-> 11, den |-> 1]}

\* what the generative model may answer in a run
Responses ==
  [sections : SeqsUpTo(SectionSample, MaxSections),
   effectiveness : [overallRating : RatingSample]]

StatSectionSample ==
  [purpose : {"hook", "call_to_action"},
   tone : {"urgent", "reassuring", "logical", "emotional"}]

\* schema-conformant answers with longer section lists
StatResponses ==
  [sections : SeqsUpTo(StatSectionSample, MaxStatSections),
   effectiveness : [overallRating : {[num |-> 7, den |-> 1]}]]

Dates == {"2026-01-01T00:00:00.000Z", "2026-01-02T00:00:00.000Z"}

(***************************************************************************)
(* Error messages.                                                         *)
(***************************************************************************)
NoAudioAvailable == "No audio-only formats available"

GetInfoError == "Error getting video info"

DownloadError == "Download error"

WriteError == "Write error"

AcquisitionFailed == {GetInfoError, DownloadError, WriteError}

MissingInputFile == "Video file name is required for transcription"

TranscriptionProviderError == "No transcription results found"

EmptyTranscript == "Transcription failed or returned empty transcript"

SchemaValidationError == "generateObject: response does not match schema"

InferenceError == "generateObject: provider call failed"

(***************************************************************************)
(* Storage                                                                 *)
(***************************************************************************)
putIfAbsent(dir, path, content) ==
  IF path \in DOMAIN dir THEN dir
  ELSE [p \in DOMAIN dir \cup {path} |-> IF p = path THEN content ELSE dir[p]]

put(dir, path, content) ==
  [p \in DOMAIN dir \cup {path} |-> IF p = path THEN content ELSE dir[p]]

removeNothing(dir, path) == dir

remove(dir, path) == [p \in DOMAIN dir \ {path} |-> dir[p]]

EmptyDir == [p \in {} |-> None]

\* if (!fs.existsSync(outputDir)) fs.mkdirSync(outputDir)
mkdirEvents(d) == IF d \in dirs THEN <<>> ELSE << <<"mkdirSync", d>> >>

OldAnalysis ==
  [metadata |-> [videoId |-> "abc123", analysisDate |-> "2025-12-31T00:00:00.000Z",
                 transcriptSource |-> EmptyString],
   vslScript |-> [sections |-> <<>>,
                  effectiveness |-> [overallRating |-> [num |-> 5, den |-> 1]]],
   statistics |-> [totalSections |-> 0, purposeBreakdown |-> <<>>,
                   toneBreakdown |-> <<>>]]

(***************************************************************************)
(* The workflow runner: .then(a).then(b) runs b on a's output and stops    *)
(* the run at the first step that throws.                                  *)
(***************************************************************************)
StepIds == {"download-video", "get-transcript", "extract-vsl-script", "save-vsl-analysis"}

ThrowSwallowed(message) ==
  /\ pc' = "done"
  /\ error' = Some(message)

ThrowNeverSettles(message) ==
  /\ pc' = "pending"
  /\ error' = error

Throw(message) ==
  /\ pc' = "failed"
  /\ error' = Some(message)

Return(stepId, output, next) ==
  /\ steps' = [steps EXCEPT ![stepId] = Some(output)]
  /\ pc' = next

events(list) == log' = log \o list

Init ==
  /\ trigger \in Triggers
  /\ pc = "download-video"
  /\ steps = [id \in StepIds |-> None]
  /\ error = None
  /\ result = None
  /\ locals = None
  /\ log = <<>>
  /\ videoDir = EmptyDir
  /\ \/ /\ dirs = {}
        /\ transcriptionDir = EmptyDir
        /\ vslAnalysisDir = EmptyDir
     \/ /\ dirs = {"video", "transcription", "vsl-analysis"}
        /\ transcriptionDir = put(EmptyDir, PriorTranscriptFile, <<"a">>)
        /\ vslAnalysisDir = put(EmptyDir, vslFilePath("abc123"), OldAnalysis)

(***************************************************************************)
(* downloadVideoStep                                                       *)
(***************************************************************************)
skipDownloadNegated(inputData) == ~inputData.exists

skipDownloadNeedsRecord(inputData) ==
  inputData.exists /\ inputData.videoRecord # None

skipDownload(inputData) == inputData.exists

\* exists: return without calling downloadVideo
DownloadVideoStepSkip ==
  /\ pc = "download-video"
  /\ skipDownload(trigger)
  /\ Return("download-video",
            [videoId |-> trigger.videoId,
             exists |-> TRUE,
             videoRecord |-> trigger.videoRecord,
             keywords |-> trigger.keywords,
             videoFileName |-> None],
            "get-transcript")
  /\ UNCHANGED <<trigger, error, result, locals, log, storage>>

\* downloadVideo up to the pending ytdl.getInfo
DownloadVideoGetInfo ==
  /\ pc = "download-video"
  /\ ~skipDownload(trigger)
  /\ dirs' = dirs \cup {"video"}
  /\ events(mkdirEvents("video") \o << <<"getInfo", trigger.videoId>> >>)
  /\ pc' = "getInfo"
  /\ UNCHANGED <<trigger, steps, error, result, locals,
                 videoDir, transcriptionDir, vslAnalysisDir>>

\* getInfo rejects: .catch rejects the promise
GetInfoRejects ==
  /\ pc = "getInfo"
  /\ Throw(GetInfoError)
  /\ UNCHANGED <<trigger, steps, result, locals, log, storage>>

\* getInfo resolves with the video details and the list of formats
GetInfoResolves ==
  /\ pc = "getInfo"
  /\ \E info \in VideoInfos : locals' = Some(info)
  /\ pc' = "gotInfo"
  /\ UNCHANGED <<trigger, steps, error, result, log, storage>>

\* .then callback: no audio-only format, the throw reaches .catch
DownloadVideoNoAudio ==
  /\ pc = "gotInfo"
  /\ Len(audioFormats(locals[1].formats)) = 0
  /\ Throw(NoAudioAvailable)
  /\ UNCHANGED <<trigger, steps, result, locals, log, storage>>

\* .then callback: pick the format, open both streams and pipe
DownloadVideoPipe ==
  /\ pc = "gotInfo"
  /\ Len(audioFormats(locals[1].formats)) # 0
  /\ LET info == locals[1]
         container == containerOf(bestAudioFormat(info.formats))
         filePath == audioFilePath(info.title, trigger.videoId, container)
     IN /\ locals' = Some([filePath |-> filePath, formats |-> info.formats])
        /\ videoDir' = put(videoDir, filePath, "partial")
        /\ events(<< <<"ytdl", trigger.videoId>>,
                     <<"createWriteStream", filePath>> >>)
  /\ pc' = "streaming"
  /\ UNCHANGED <<trigger, steps, error, result, dirs, transcriptionDir, vslAnalysisDir>>

AudioStreamError ==
  /\ pc = "streaming"
  /\ Throw(DownloadError)
  /\ UNCHANGED <<trigger, steps, result, locals, log, storage>>

WriteStreamError ==
  /\ pc = "streaming"
  /\ Throw(WriteError)
  /\ UNCHANGED <<trigger, steps, result, locals, log, storage>>

\* resolving when the audio stream ends, before the write stream has finished
WriteStreamFinishEarly ==
  /\ pc = "streaming"
  /\ Return("download-video",
            [videoFileName |-> Some(locals[1].filePath),
             videoId |-> trigger.videoId,
             exists |-> FALSE,
             keywords |-> trigger.keywords],
            "get-transcript")
  /\ locals' = None
  /\ UNCHANGED <<trigger, error, result, log, storage>>

\* writeStream finish resolves downloadVideo and the step returns
WriteStreamFinish ==
  /\ pc = "streaming"
  /\ LET filePath == locals[1].filePath
     IN /\ videoDir' = put(videoDir, filePath, "complete")
        /\ Return("download-video",
                  [videoFileName |-> Some(filePath),
                   videoId |-> trigger.videoId,
                   exists |-> FALSE,
                   keywords |-> trigger.keywords],
                  "get-transcript")
  /\ locals' = None
  /\ UNCHANGED <<trigger, error, result, log, dirs, transcriptionDir, vslAnalysisDir>>

(***************************************************************************)
(* getTranscriptStep                                                       *)
(***************************************************************************)
\* inputData.exists && inputData.videoRecord; an absent field is undefined
useExistingTranscript(inputData) ==
  /\ inputData.exists
  /\ "videoRecord" \in DOMAIN inputData
  /\ inputData.videoRecord # None

existingTranscriptFileNameDropped(videoRecord) == EmptyString

\* inputData.videoRecord.transcriptFileName || ""
existingTranscriptFileName(videoRecord) ==
  IF videoRecord.transcriptFileName = None THEN EmptyString
  ELSE videoRecord.transcriptFileName[1]

missingVideoFileNameEmptyOnly(inputData) ==
  IF inputData.videoFileName = None THEN FALSE
  ELSE inputData.videoFileName[1] = EmptyString

\* !inputData.videoFileName
missingVideoFileName(inputData) ==
  IF inputData.videoFileName = None THEN TRUE
  ELSE inputData.videoFileName[1] = EmptyString

transcriptInput == steps["download-video"][1]

GetTranscriptStepExisting ==
  /\ pc = "get-transcript"
  /\ useExistingTranscript(transcriptInput)
  /\ LET videoRecord == transcriptInput.videoRecord[1]
         transcript == videoRecord.fullTranscript
     IN /\ ~IsEmptyTranscript(transcript)
        /\ Return("get-transcript",
                  [transcript |-> transcript[1],
                   transcriptFileName |-> existingTranscriptFileName(videoRecord),
                   videoFileDeleted |-> TRUE,
                   videoId |-> transcriptInput.videoId],
                  "extract-vsl-script")
  /\ UNCHANGED <<trigger, error, result, locals, log, storage>>

GetTranscriptStepExistingEmpty ==
  /\ pc = "get-transcript"
  /\ useExistingTranscript(transcriptInput)
  /\ IsEmptyTranscript(transcriptInput.videoRecord[1].fullTranscript)
  /\ Throw(EmptyTranscript)
  /\ UNCHANGED <<trigger, steps, result, locals, log, storage>>

GetTranscriptStepMissingFile ==
  /\ pc = "get-transcript"
  /\ ~useExistingTranscript(transcriptInput)
  /\ missingVideoFileName(transcriptInput)
  /\ Throw(MissingInputFile)
  /\ UNCHANGED <<trigger, steps, result, locals, log, storage>>

\* getTranscript up to the pending transcribeFile
GetTranscriptTranscribeFile ==
  /\ pc = "get-transcript"
  /\ ~useExistingTranscript(transcriptInput)
  /\ ~missingVideoFileName(transcriptInput)
  /\ locals' = Some([videoFileName |-> transcriptInput.videoFileName])
  /\ events(<< <<"transcribeFile", transcriptInput.videoFileName>> >>)
  /\ pc' = "transcribeFile"
  /\ UNCHANGED <<trigger, steps, error, result, storage>>

\* the audio file removed on the failure path as well
TranscribeFileNoResultUnlinks ==
  /\ pc = "transcribeFile"
  /\ Throw("No transcription results found")
  /\ videoDir' = [p \in DOMAIN videoDir \ {locals[1].videoFileName[1]} |-> videoDir[p]]
  /\ events(<< <<"unlinkSync", locals[1].videoFileName[1]>> >>)
  /\ UNCHANGED <<trigger, steps, result, locals, dirs, transcriptionDir, vslAnalysisDir>>

\* the provider fails or returns no alternative
TranscribeFileNoResult ==
  /\ pc = "transcribeFile"
  /\ Throw(TranscriptionProviderError)
  /\ UNCHANGED <<trigger, steps, result, locals, log, storage>>

\* the provider returns a transcript: write the transcript file
TranscribeFileResolves ==
  /\ pc = "transcribeFile"
  /\ \E transcript \in Transcripts :
       LET videoFileName == locals[1].videoFileName[1]
           transcriptFileName == transcriptFilePath(videoFileName)
       IN /\ dirs' = dirs \cup {"transcription"}
          /\ transcriptionDir' = put(transcriptionDir, transcriptFileName, transcript)
          /\ events(mkdirEvents("transcription")
                    \o << <<"writeFileSync", transcriptFileName>> >>)
          /\ locals' = Some([videoFileName |-> videoFileName,
                             transcript |-> transcript,
                             transcriptFileName |-> transcriptFileName])
  /\ pc' = "unlinkSync"
  /\ UNCHANGED <<trigger, steps, error, result, videoDir, vslAnalysisDir>>

\* unlink the audio file, return from getTranscript, validate, return
GetTranscriptStepFresh ==
  /\ pc = "unlinkSync"
  /\ ~IsEmptyTranscript(Some(locals[1].transcript))
  /\ videoDir' = remove(videoDir, locals[1].videoFileName)
  /\ events(<< <<"unlinkSync", locals[1].videoFileName>> >>)
  /\ Return("get-transcript",
            [transcript |-> locals[1].transcript,
             transcriptFileName |-> locals[1].transcriptFileName,
             videoFileDeleted |-> TRUE,
             videoId |-> transcriptInput.videoId],
            "extract-vsl-script")
  /\ locals' = None
  /\ UNCHANGED <<trigger, error, result, dirs, transcriptionDir, vslAnalysisDir>>

\* unlink the audio file, return from getTranscript, validation throws
GetTranscriptStepFreshEmpty ==
  /\ pc = "unlinkSync"
  /\ IsEmptyTranscript(Some(locals[1].transcript))
  /\ videoDir' = remove(videoDir, locals[1].videoFileName)
  /\ events(<< <<"unlinkSync", locals[1].videoFileName>> >>)
  /\ Throw(EmptyTranscript)
  /\ UNCHANGED <<trigger, steps, result, locals, dirs, transcriptionDir, vslAnalysisDir>>

(***************************************************************************)
(* extractVSLStep                                                          *)
(***************************************************************************)
extractInput == steps["get-transcript"][1]

ExtractVSLStepGenerateObject ==
  /\ pc = "extract-vsl-script"
  /\ events(<< <<"generateObject", extractInput.transcript>> >>)
  /\ pc' = "generateObject"
  /\ UNCHANGED <<trigger, steps, error, result, locals, storage>>

\* the provider call itself fails
GenerateObjectFails ==
  /\ pc = "generateObject"
  /\ Throw(InferenceError)
  /\ UNCHANGED <<trigger, steps, result, locals, log, storage>>

\* the answer does not parse against vslScriptSchema
GenerateObjectRejects(answers) ==
  /\ pc = "generateObject"
  /\ \E object \in answers :
       /\ ~vslScriptSchema(object)
       /\ Throw(SchemaValidationError)
  /\ UNCHANGED <<trigger, steps, result, locals, log, storage>>

withVslScriptTrimmed(inputData, vslScript) ==
  [k \in DOMAIN inputData \cup {"vslScript"} |->
     IF k = "vslScript" THEN vslScript
     ELSE IF k = "transcript" THEN trim(inputData[k])
     ELSE inputData[k]]

\* { ...inputData, vslScript }
withVslScript(inputData, vslScript) ==
  [k \in DOMAIN inputData \cup {"vslScript"} |->
     IF k = "vslScript" THEN vslScript ELSE inputData[k]]

GenerateObjectResolves(answers) ==
  /\ pc = "generateObject"
  /\ \E object \in answers :
       /\ vslScriptSchema(object)
       /\ Return("extract-vsl-script", withVslScript(extractInput, object),
                 "save-vsl-analysis")
  /\ UNCHANGED <<trigger, error, result, locals, log, storage>>

(***************************************************************************)
(* saveVSLStep                                                             *)
(***************************************************************************)
saveInput == steps["extract-vsl-script"][1]

SaveVSLStep ==
  /\ pc = "save-vsl-analysis"
  /\ \E analysisDate \in Dates :
       LET vslFileName == vslFilePath(saveInput.videoId)
           analysis == vslAnalysis(saveInput, analysisDate)
           output == [transcript |-> saveInput.transcript,
                      vslScript |-> saveInput.vslScript,
                      vslFileName |-> vslFileName,
                      summary |-> summaryOf(saveInput, analysis)]
       IN /\ dirs' = dirs \cup {"vsl-analysis"}
          /\ vslAnalysisDir' = put(vslAnalysisDir, vslFileName, analysis)
          /\ events(mkdirEvents("vsl-analysis")
                    \o << <<"writeFileSync", vslFileName>> >>)
          /\ Return("save-vsl-analysis", output, "done")
          /\ result' = Some(output)
  /\ UNCHANGED <<trigger, error, locals, videoDir, transcriptionDir>>

(***************************************************************************)
(* youtubeVSLWorkflow                                                      *)
(***************************************************************************)
Next ==
  \/ DownloadVideoStepSkip
  \/ DownloadVideoGetInfo
  \/ GetInfoRejects
  \/ GetInfoResolves
  \/ DownloadVideoNoAudio
  \/ DownloadVideoPipe
  \/ AudioStreamError
  \/ WriteStreamError
  \/ WriteStreamFinish
  \/ GetTranscriptStepExisting
  \/ GetTranscriptStepExistingEmpty
  \/ GetTranscriptStepMissingFile
  \/ GetTranscriptTranscribeFile
  \/ TranscribeFileNoResult
  \/ TranscribeFileResolves
  \/ GetTranscriptStepFresh
  \/ GetTranscriptStepFreshEmpty
  \/ ExtractVSLStepGenerateObject
  \/ GenerateObjectFails
  \/ GenerateObjectRejects(Responses)
  \/ GenerateObjectResolves(Responses)
  \/ SaveVSLStep

Spec == Init /\ [][Next]_vars

\* Runs of the video "abc123" in which every pending external call completes
\* or reports an error and the event loop runs every continuation that is
\* ready.
InitFair ==
  /\ Init
  /\ trigger.videoId = "abc123"
  /\ trigger.videoRecord \in
       {None,
        Some([fullTranscript |-> Some(<<"a">>), transcriptFileName |-> None]),
        Some([fullTranscript |-> Some(<<" ">>), transcriptFileName |-> None])}

SpecFair == InitFair /\ [][Next]_vars /\ WF_vars(Next)

(***************************************************************************)
(* Runs of the cached video "xyz789" in which the generative model answers *)
(* with schema-conformant section lists of every shape up to               *)
(* MaxStatSections.                                                        *)
(***************************************************************************)
InitStats ==
  /\ Init
  /\ trigger = [videoId |-> "xyz789",
                exists |-> TRUE,
                videoRecord |-> Some([fullTranscript |-> Some(<<"a">>),
                                      transcriptFileName |-> Some(PriorTranscriptFile)]),
                keywords |-> None]

NextStats ==
  \/ DownloadVideoStepSkip
  \/ GetTranscriptStepExisting
  \/ ExtractVSLStepGenerateObject
  \/ GenerateObjectResolves(StatResponses)
  \/ SaveVSLStep

SpecStats == InitStats /\ [][NextStats]_vars

(***************************************************************************)
(* The registered workflow run several times in a row on videos that the   *)
(* existence check knows, over the same storage.  The log is kept across   *)
(* the runs.                                                               *)
(***************************************************************************)
KnownVideoTriggers ==
  [videoId : VideoIds,
   exists : {TRUE},
   videoRecord : {Some([fullTranscript |-> Some(<<"a">>),
                        transcriptFileName |-> Some(PriorTranscriptFile)])},
   keywords : {None}]

RunsFinished == Cardinality({i \in DOMAIN log : log[i][1] = "writeFileSync"})

\* the caller starts the workflow again after a finished run
StartRun ==
  /\ pc = "done"
  /\ RunsFinished < MaxRuns
  /\ trigger' \in KnownVideoTriggers
  /\ pc' = "download-video"
  /\ steps' = [id \in StepIds |-> None]
  /\ error' = None
  /\ result' = None
  /\ locals' = None
  /\ UNCHANGED <<log, storage>>

InitRuns ==
  /\ Init
  /\ trigger \in KnownVideoTriggers

NextRuns ==
  \/ DownloadVideoStepSkip
  \/ GetTranscriptStepExisting
  \/ ExtractVSLStepGenerateObject
  \/ GenerateObjectResolves(Responses)
  \/ SaveVSLStep
  \/ StartRun

SpecRuns == InitRuns /\ [][NextRuns]_vars

(***************************************************************************)
(* Properties                                                              *)
(***************************************************************************)
Called(op) == \E i \in DOMAIN log : log[i][1] = op

Returned(stepId) == steps[stepId] # None

OutputOf(stepId) == steps[stepId][1]

\* the step after get-transcript has been entered
PastTranscription ==
  \/ pc \in {"extract-vsl-script", "generateObject", "save-vsl-analysis", "done"}
  \/ Called("generateObject")
  \/ Returned("extract-vsl-script")
  \/ Returned("save-vsl-analysis")

\* get-transcript has run on the record of the existence check
TookExistingPath ==
  /\ Returned("download-video")
  /\ pc # "get-transcript"
  /\ useExistingTranscript(transcriptInput)

\* get-transcript has run without a usable record of the existence check
TookFreshPath ==
  /\ Returned("download-video")
  /\ pc # "get-transcript"
  /\ ~useExistingTranscript(transcriptInput)

Blank(text) == \A i \in DOMAIN text : text[i] \in Whitespace

\* C1: get-transcript returns only a transcript that is non-empty after
\* trimming, on the existing-record path and on the fresh path; with an
\* empty or whitespace-only transcript the step throws and neither
\* extract-vsl-script nor save-vsl-analysis is entered.
C1_TranscriptNonEmpty ==
  /\ Returned("get-transcript") => ~Blank(OutputOf("get-transcript").transcript)
  /\ PastTranscription =>
       /\ Returned("get-transcript")
       /\ ~Blank(OutputOf("get-transcript").transcript)
  /\ (TookExistingPath /\
      (transcriptInput.videoRecord[1].fullTranscript = None
       \/ Blank(transcriptInput.videoRecord[1].fullTranscript[1]))) =>
       /\ pc = "failed"
       /\ error = Some(EmptyTranscript)
       /\ ~PastTranscription
  /\ (locals # None /\ "transcript" \in DOMAIN locals[1] /\ Blank(locals[1].transcript)) =>
       /\ pc \in {"unlinkSync", "failed"}
       /\ pc = "failed" => error = Some(EmptyTranscript)
       /\ ~PastTranscription

C1_Witness ==
  /\ pc = "failed"
  /\ error = Some(EmptyTranscript)
  /\ TookFreshPath
  /\ locals[1].transcript = <<" ", " ">>

\* C2: with exists = true, download-video returns the same videoId,
\* exists = true and a null videoFileName, ytdl is never called (no getInfo,
\* no stream) and no audio file is created.
C2_SkipDownload ==
  (trigger.exists /\ pc # "download-video") =>
    /\ Returned("download-video")
    /\ OutputOf("download-video").videoId = trigger.videoId
    /\ OutputOf("download-video").exists = TRUE
    /\ OutputOf("download-video").videoFileName = None
    /\ ~Called("getInfo")
    /\ ~Called("ytdl")
    /\ ~Called("createWriteStream")
    /\ videoDir = EmptyDir

C2_Witness ==
  /\ trigger.exists
  /\ pc = "get-transcript"
  /\ Returned("download-video")

\* what get-transcript returns on the existing-record path, apart from the
\* transcript file name
ExistingPathReturn ==
  /\ OutputOf("get-transcript").transcript
       = transcriptInput.videoRecord[1].fullTranscript[1]
  /\ OutputOf("get-transcript").videoFileDeleted = TRUE
  /\ ~Called("transcribeFile")
  /\ ~Called("unlinkSync")
  /\ \A i \in DOMAIN log :
       log[i][1] = "writeFileSync" => log[i][2][1] = "vsl-analysis"
  /\ pc = "extract-vsl-script" => log = <<>>

\* C3 as stated: on the existing-record path get-transcript returns the
\* record's transcript and the record's transcript file name verbatim, with
\* videoFileDeleted = true, no call to Deepgram and no file written or
\* deleted.
C3_Original ==
  (TookExistingPath /\ Returned("get-transcript")) =>
    /\ ExistingPathReturn
    /\ Some(OutputOf("get-transcript").transcriptFileName)
         = transcriptInput.videoRecord[1].transcriptFileName

\* C3 amended: the transcript file name is the record's when the record has
\* one and the empty string when it has none.
C3_ExistingPath ==
  (TookExistingPath /\ Returned("get-transcript")) =>
    /\ ExistingPathReturn
    /\ LET prior == transcriptInput.videoRecord[1].transcriptFileName
       IN OutputOf("get-transcript").transcriptFileName
            = IF prior = None THEN EmptyString ELSE prior[1]

C3_Witness ==
  /\ TookExistingPath
  /\ Returned("get-transcript")
  /\ transcriptInput.videoRecord[1].transcriptFileName = None
  /\ OutputOf("get-transcript").transcriptFileName = EmptyString
  /\ pc = "extract-vsl-script"

\* C4: a throwing step ends the run in failure at once: the run is failed
\* exactly when an error is recorded, a failed run has no result and takes no
\* further step (no provider call, no file operation, no step output), a
\* step has an output only if every earlier step has one, and a run that
\* reports success carries no error and the output of all four steps.
C4_FailFast ==
  /\ [](error # None <=> pc = "failed")
  /\ [](pc = "failed" => result = None)
  /\ [](pc = "done" =>
          /\ error = None
          /\ result # None
          /\ \A id \in StepIds : Returned(id))
  /\ []( /\ Returned("save-vsl-analysis") => Returned("extract-vsl-script")
         /\ Returned("extract-vsl-script") => Returned("get-transcript")
         /\ Returned("get-transcript") => Returned("download-video"))
  /\ [][error # None => UNCHANGED vars]_vars

C4_Witness ==
  /\ pc = "failed"
  /\ error = Some(TranscriptionProviderError)
  /\ Returned("download-video")
  /\ ~Returned("get-transcript")

InRange(r) == r.num >= r.den /\ r.num <= 10 * r.den

\* the script conforms to the enumerations and the rating range
Conformant(script) ==
  /\ \A i \in DOMAIN script.sections :
       /\ script.sections[i].purpose \in PurposeEnum
       /\ script.sections[i].tone \in ToneEnum
  /\ InRange(script.effectiveness.overallRating)

\* every script handed on by extract-vsl-script, and every script
\* save-vsl-analysis has returned or written in this run, satisfies P
EveryScriptPassedOn(P(_)) ==
  /\ Returned("extract-vsl-script") => P(OutputOf("extract-vsl-script").vslScript)
  /\ Returned("save-vsl-analysis") => P(OutputOf("save-vsl-analysis").vslScript)
  /\ \A i \in DOMAIN log :
       (log[i][1] = "writeFileSync" /\ log[i][2][1] = "vsl-analysis") =>
          P(vslAnalysisDir[log[i][2]].vslScript)

C6_NoAudio ==
  /\ [][(pc = "gotInfo" /\
         \A i \in DOMAIN locals[1].formats :
            ~(locals[1].formats[i].hasAudio /\ ~locals[1].formats[i].hasVideo))
        => (/\ pc' = "failed"
            /\ error' = Some(NoAudioAvailable)
            /\ UNCHANGED <<log, storage>>)]_vars
  /\ [](error = Some(NoAudioAvailable) =>
          /\ pc = "failed"
          /\ ~trigger.exists
          /\ videoDir = EmptyDir
          /\ ~Called("createWriteStream")
          /\ ~Called("writeFileSync")
          /\ \A id \in StepIds : ~Returned(id))

C6_Witness ==
  /\ pc = "failed"
  /\ error = Some(NoAudioAvailable)
  /\ locals # None
  /\ Len(locals[1].formats) > 0

\* C7: on the fresh path with a null videoFileName get-transcript throws the
\* missing-file error; Deepgram has not been called and no file has been
\* written or deleted.
C7_MissingInputFile ==
  (/\ Returned("download-video")
   /\ ~useExistingTranscript(transcriptInput)
   /\ transcriptInput.videoFileName = None
   /\ pc # "get-transcript") =>
     /\ pc = "failed"
     /\ error = Some(MissingInputFile)
     /\ ~Called("transcribeFile")
     /\ ~Called("writeFileSync")
     /\ ~Called("unlinkSync")
     /\ ~Returned("get-transcript")

C7_Witness ==
  /\ pc = "failed"
  /\ error = Some(MissingInputFile)
  /\ trigger.exists
  /\ trigger.videoRecord = None

\* the audio files this run has opened for writing
DownloadedByRun == {log[i][2] : i \in {j \in DOMAIN log : log[j][1] = "createWriteStream"}}

\* C8: once get-transcript has returned on the fresh path the transcript file
\* exists and holds the returned transcript, the downloaded audio file is
\* gone and videoFileDeleted is true; and whenever a step output carries
\* videoFileDeleted = true no audio file downloaded by the run is in storage.
C8_AudioDeleted ==
  /\ (TookFreshPath /\ Returned("get-transcript")) =>
       LET out == OutputOf("get-transcript")
       IN /\ out.transcriptFileName \in DOMAIN transcriptionDir
          /\ transcriptionDir[out.transcriptFileName] = out.transcript
          /\ out.transcriptFileName = transcriptFilePath(transcriptInput.videoFileName[1])
          /\ transcriptInput.videoFileName[1] \notin DOMAIN videoDir
          /\ out.videoFileDeleted = TRUE
  /\ \A id \in StepIds :
       (/\ Returned(id)
        /\ "videoFileDeleted" \in DOMAIN OutputOf(id)
        /\ OutputOf(id).videoFileDeleted = TRUE) =>
          DownloadedByRun \cap DOMAIN videoDir = {}

C8_Witness ==
  /\ TookFreshPath
  /\ Returned("get-transcript")
  /\ pc = "extract-vsl-script"
  /\ DownloadedByRun # {}

RECURSIVE SumOfCounts(_)
SumOfCounts(table) ==
  IF table = <<>> THEN 0 ELSE Head(table)[2] + SumOfCounts(Tail(table))

Occurrences(keys, k) == Cardinality({j \in DOMAIN keys : keys[j] = k})

\* table has one entry per key that occurs in keys, with its number of
\* occurrences
IsFrequencyTable(table, keys) ==
  /\ \A i, j \in DOMAIN table : i # j => table[i][1] # table[j][1]
  /\ \A i \in DOMAIN table :
       /\ table[i][2] >= 1
       /\ table[i][2] = Occurrences(keys, table[i][1])
  /\ \A j \in DOMAIN keys : \E i \in DOMAIN table : table[i][1] = keys[j]
  /\ SumOfCounts(table) = Len(keys)

PurposesOf(sections) == [i \in DOMAIN sections |-> sections[i].purpose]

TonesOf(sections) == [i \in DOMAIN sections |-> sections[i].tone]

PersistedStatistics == vslAnalysisDir[result[1].vslFileName].statistics

\* C9: the persisted purposeBreakdown has a key exactly for the purposes that
\* occur in the sections, each with its number of occurrences, and so has
\* toneBreakdown for the tones; the counts of each table sum to the number
\* of sections.
C9_Breakdown ==
  pc = "done" =>
    /\ IsFrequencyTable(PersistedStatistics.purposeBreakdown,
                        PurposesOf(result[1].vslScript.sections))
    /\ IsFrequencyTable(PersistedStatistics.toneBreakdown,
                        TonesOf(result[1].vslScript.sections))
    /\ PersistedStatistics.totalSections = Len(result[1].vslScript.sections)

C9_Witness ==
  /\ pc = "done"
  /\ PurposesOf(result[1].vslScript.sections) = <<"hook", "hook", "call_to_action">>
  /\ TonesOf(result[1].vslScript.sections) = <<"urgent", "urgent", "reassuring">>
  /\ PersistedStatistics.purposeBreakdown = << <<"hook", 2>>, <<"call_to_action", 1>> >>
  /\ PersistedStatistics.toneBreakdown = << <<"urgent", 2>>, <<"reassuring", 1>> >>

FirstOccurrence(keys, k) ==
  CHOOSE j \in DOMAIN keys : keys[j] = k /\ \A i \in 1..(j - 1) : keys[i] # k

\* tone a ranks before tone b: more occurrences, or as many and an earlier
\* first occurrence
RanksBefore(tones, a, b) ==
  \/ Occurrences(tones, a) > Occurrences(tones, b)
  \/ /\ Occurrences(tones, a) = Occurrences(tones, b)
     /\ FirstOccurrence(tones, a) < FirstOccurrence(tones, b)

\* C10: dominantTones lists min(3, number of distinct tones) distinct tones
\* by non-increasing count; no omitted tone occurs more often than a listed
\* one; equal counts are ordered, and the cut at three is decided, by first
\* occurrence in the sections.
C10_DominantTones ==
  pc = "done" =>
    LET tones == TonesOf(result[1].vslScript.sections)
        distinct == {tones[j] : j \in DOMAIN tones}
        dominant == result[1].summary.dominantTones
        listed == {dominant[i] : i \in DOMAIN dominant}
    IN /\ Len(dominant) = Min(3, Cardinality(distinct))
       /\ listed \subseteq distinct
       /\ Cardinality(listed) = Len(dominant)
       /\ \A i, j \in DOMAIN dominant :
            i < j => RanksBefore(tones, dominant[i], dominant[j])
       /\ \A t \in distinct \ listed :
            \A i \in DOMAIN dominant : RanksBefore(tones, dominant[i], t)

C10_Witness ==
  /\ pc = "done"
  /\ TonesOf(result[1].vslScript.sections)
       = <<"logical", "urgent", "reassuring", "emotional">>
  /\ result[1].summary.dominantTones = <<"logical", "urgent", "reassuring">>

AnalysisFileOf(videoId) == <<"vsl-analysis", <<>>, videoId, "_vsl_analysis", "json">>

WritesTo(path) == {i \in DOMAIN log : log[i] = <<"writeFileSync", path>>}

\* C11: persisting an analysis for a video id, any number of times, leaves
\* exactly one analysis file for the id, named <videoId>_vsl_analysis.json,
\* holding the analysis of the latest write; no other analysis file is
\* created or changed by the write, and every other step leaves the analysis
\* files alone.
C11_Overwrite ==
  /\ [][IF pc = "save-vsl-analysis" /\ pc' = "done"
        THEN LET id == trigger.videoId
                 file == AnalysisFileOf(id)
             IN /\ DOMAIN vslAnalysisDir' = DOMAIN vslAnalysisDir \cup {file}
                /\ \A p \in DOMAIN vslAnalysisDir \ {file} :
                     vslAnalysisDir'[p] = vslAnalysisDir[p]
                /\ result'[1].vslFileName = file
                /\ vslAnalysisDir'[file].metadata.videoId = id
                /\ vslAnalysisDir'[file].vslScript = result'[1].vslScript
                /\ vslAnalysisDir'[file].statistics.totalSections
                     = Len(result'[1].vslScript.sections)
        ELSE vslAnalysisDir' = vslAnalysisDir]_vars
  /\ [](\A id \in VideoIds :
          Cardinality({p \in DOMAIN vslAnalysisDir :
                         vslAnalysisDir[p].metadata.videoId = id}) <= 1)
  /\ [](\A p \in DOMAIN vslAnalysisDir :
          p = AnalysisFileOf(vslAnalysisDir[p].metadata.videoId))

C11_Witness ==
  /\ pc = "done"
  /\ Cardinality(WritesTo(AnalysisFileOf(trigger.videoId))) = 2
  /\ Cardinality(DOMAIN vslAnalysisDir) = 2
  /\ vslAnalysisDir[AnalysisFileOf(trigger.videoId)].vslScript = result[1].vslScript

\* the fields of the records returned on the "already exists" paths
SkipDownloadFields == {"videoId", "exists", "videoRecord", "keywords", "videoFileName"}

ExistingTranscriptFields ==
  {"transcript", "transcriptFileName", "videoFileDeleted", "videoId"}

\* C12: the record a step returns after the full computation has exactly the
\* fields of the record it returns on its "already exists" path, for
\* download-video and for get-transcript.
C12_SameShape ==
  /\ Returned("download-video") =>
       DOMAIN OutputOf("download-video") = SkipDownloadFields
  /\ Returned("get-transcript") =>
       DOMAIN OutputOf("get-transcript") = ExistingTranscriptFields

\* get-transcript alone returns the same fields on both of its paths
C12_TranscriptShape ==
  Returned("get-transcript") =>
    DOMAIN OutputOf("get-transcript") = ExistingTranscriptFields

\* the external calls of the log, in the order of the steps that make them
CallRank(op, path) ==
  IF op = "mkdirSync" THEN
       (IF path = "video" THEN 1 ELSE IF path = "transcription" THEN 5 ELSE 8)
  ELSE IF op = "getInfo" THEN 2
  ELSE IF op = "ytdl" THEN 3
  ELSE IF op = "createWriteStream" THEN 4
  ELSE IF op = "transcribeFile" THEN 5
  ELSE IF op = "writeFileSync" THEN (IF path[1] = "transcription" THEN 6 ELSE 9)
  ELSE IF op = "unlinkSync" THEN 7
  ELSE 8

RankOf(event) == CallRank(event[1], event[2])

ProviderCalls == {"getInfo", "ytdl", "transcribeFile", "generateObject"}

TimesCalled(op) == Cardinality({i \in DOMAIN log : log[i][1] = op})

StepOrder ==
  <<"download-video", "get-transcript", "extract-vsl-script", "save-vsl-analysis">>

\* C13: the steps run in the order download-video, get-transcript,
\* extract-vsl-script, save-vsl-analysis, each at most once; a step is entered
\* and makes its calls only after its predecessor has returned (Deepgram is
\* called only when the audio file is completely written), and every
\* provider is called at most once, one after the other.
C13_StrictOrder ==
  /\ [](\A i, j \in DOMAIN log : i < j => RankOf(log[i]) <= RankOf(log[j]))
  /\ [](\A op \in ProviderCalls : TimesCalled(op) <= 1)
  /\ [](\A k \in 2..4 :
          (pc = StepOrder[k] \/ Returned(StepOrder[k])) => Returned(StepOrder[k - 1]))
  /\ [](pc \in {"getInfo", "gotInfo", "streaming"} => ~Returned("download-video"))
  /\ [](pc \in {"transcribeFile", "unlinkSync"} =>
          Returned("download-video") /\ ~Returned("get-transcript"))
  /\ [](pc = "generateObject" =>
          Returned("get-transcript") /\ ~Returned("extract-vsl-script"))
  /\ [](Called("transcribeFile") => Returned("download-video"))
  /\ [](Called("generateObject") => Returned("get-transcript"))
  /\ []((\E i \in DOMAIN log : RankOf(log[i]) = 9) => Returned("extract-vsl-script"))
  /\ [][\A id \in StepIds : Returned(id) => steps'[id] = steps[id]]_vars
  /\ [][(~Called("transcribeFile") /\ Called("transcribeFile")') =>
          /\ Returned("download-video")
          /\ OutputOf("download-video").videoFileName # None
          /\ OutputOf("download-video").videoFileName[1] \in DOMAIN videoDir
          /\ videoDir[OutputOf("download-video").videoFileName[1]] = "complete"]_vars

C13_Witness ==
  /\ pc = "done"
  /\ ~trigger.exists
  /\ \A op \in ProviderCalls : TimesCalled(op) = 1

AudioOnly(formats) ==
  {i \in DOMAIN formats : formats[i].hasAudio /\ ~formats[i].hasVideo}

Bitrate(f) == IF f.audioBitrate = None THEN 0 ELSE f.audioBitrate[1]

\* the first of the audio-only formats with the highest bitrate
Selected(formats) ==
  CHOOSE i \in AudioOnly(formats) :
    /\ \A j \in AudioOnly(formats) : Bitrate(formats[j]) <= Bitrate(formats[i])
    /\ \A j \in AudioOnly(formats) :
         Bitrate(formats[j]) = Bitrate(formats[i]) => i <= j

\* downloadVideo goes from the resolved formats to the open streams
PicksFormat == pc = "gotInfo" /\ pc' = "streaming"

\* C14 as stated: the audio file's extension is the container of the first
\* audio-only format with the highest bitrate (a missing bitrate counts 0).
C14_Original ==
  [][PicksFormat =>
       Some(locals'[1].filePath[5]) = locals[1].formats[Selected(locals[1].formats)].container]_vars

\* C14 amended: the audio file's extension is the container of the first
\* audio-only format with the highest bitrate (a missing bitrate counts 0),
\* or "webm" when that format has no container.
C14_BestAudioFormat ==
  [][PicksFormat =>
       LET best == locals[1].formats[Selected(locals[1].formats)]
       IN locals'[1].filePath[5]
            = IF best.container = None THEN "webm" ELSE best.container[1]]_vars

C14_Witness ==
  /\ pc = "streaming"
  /\ AudioOnly(locals[1].formats) = {1, 2}
  /\ Bitrate(locals[1].formats[1]) = Bitrate(locals[1].formats[2])
  /\ locals[1].formats[1].container = Some("mp4")
  /\ locals[1].formats[2].container = Some("webm")
  /\ locals[1].filePath[5] = "mp4"

\* C15: every field a step receives and forwards keeps its value: the
\* videoId of every step output, of the artifact's metadata and of the
\* analysis file name is the videoId given at entry, exists and keywords pass
\* through download-video, and the transcript (with its file name and the
\* deleted flag) returned by extract-vsl-script and save-vsl-analysis is the
\* one get-transcript returned.
C15_PassThrough ==
  /\ \A id \in StepIds :
       (Returned(id) /\ "videoId" \in DOMAIN OutputOf(id)) =>
          OutputOf(id).videoId = trigger.videoId
  /\ Returned("download-video") =>
       /\ OutputOf("download-video").exists = trigger.exists
       /\ OutputOf("download-video").keywords = trigger.keywords
       /\ "videoRecord" \in DOMAIN OutputOf("download-video") =>
            OutputOf("download-video").videoRecord = trigger.videoRecord
  /\ Returned("extract-vsl-script") =>
       /\ OutputOf("extract-vsl-script").transcript = OutputOf("get-transcript").transcript
       /\ OutputOf("extract-vsl-script").transcriptFileName
            = OutputOf("get-transcript").transcriptFileName
       /\ OutputOf("extract-vsl-script").videoFileDeleted
            = OutputOf("get-transcript").videoFileDeleted
  /\ Returned("save-vsl-analysis") =>
       LET out == OutputOf("save-vsl-analysis")
       IN /\ out.transcript = OutputOf("get-transcript").transcript
          /\ out.vslScript = OutputOf("extract-vsl-script").vslScript
          /\ out.vslFileName = AnalysisFileOf(trigger.videoId)
          /\ vslAnalysisDir[out.vslFileName].metadata.videoId = trigger.videoId
          /\ vslAnalysisDir[out.vslFileName].metadata.transcriptSource
               = OutputOf("get-transcript").transcriptFileName
          /\ vslAnalysisDir[out.vslFileName].vslScript = out.vslScript

C15_Witness ==
  /\ pc = "done"
  /\ ~trigger.exists
  /\ result[1].transcript = <<" ", "a">>
  /\ OutputOf("get-transcript").transcript = <<" ", "a">>

EventIndex(event) == CHOOSE i \in DOMAIN log : log[i] = event

TranscriptFileOf(audioFile) ==
  <<"transcription", audioFile[2], audioFile[3], "_transcript", "txt">>

\* C16: the downloaded audio file is deleted only after Deepgram has returned
\* a transcript and the transcript file has been written: whenever the audio
\* file is gone its transcript file exists and was written before the
\* unlink, and while the provider is pending or after it failed no
\* transcript file has been written and the audio file is in place.
C16_DeleteAfterWrite ==
  /\ \A audio \in DownloadedByRun :
       (audio \notin DOMAIN videoDir \/ Called("unlinkSync")) =>
          /\ TranscriptFileOf(audio) \in DOMAIN transcriptionDir
          /\ <<"transcribeFile", Some(audio)>> \in {log[i] : i \in DOMAIN log}
          /\ <<"writeFileSync", TranscriptFileOf(audio)>> \in {log[i] : i \in DOMAIN log}
          /\ <<"unlinkSync", audio>> \in {log[i] : i \in DOMAIN log}
          /\ EventIndex(<<"transcribeFile", Some(audio)>>)
               < EventIndex(<<"writeFileSync", TranscriptFileOf(audio)>>)
          /\ EventIndex(<<"writeFileSync", TranscriptFileOf(audio)>>)
               < EventIndex(<<"unlinkSync", audio>>)
  /\ (pc = "transcribeFile" \/ error = Some(TranscriptionProviderError)) =>
       /\ ~Called("writeFileSync")
       /\ ~Called("unlinkSync")
       /\ DownloadedByRun # {}
       /\ \A audio \in DownloadedByRun :
            audio \in DOMAIN videoDir /\ videoDir[audio] = "complete"

C16_Witness ==
  /\ pc = "generateObject"
  /\ Called("unlinkSync")
  /\ DownloadedByRun # {}
  /\ DownloadedByRun \cap DOMAIN videoDir = {}
  /\ \A audio \in DownloadedByRun : TranscriptFileOf(audio) \in DOMAIN transcriptionDir

\* C17: a run entered with exists = true and no record never succeeds:
\* download-video returns a null videoFileName without downloading,
\* get-transcript takes the fresh path and throws the missing-file error, and
\* ytdl, Deepgram and generateObject are never called.
C17_ExistsWithoutRecord ==
  (trigger.exists /\ trigger.videoRecord = None) =>
    /\ pc \in {"download-video", "get-transcript", "failed"}
    /\ result = None
    /\ log = <<>>
    /\ pc # "download-video" =>
         /\ Returned("download-video")
         /\ OutputOf("download-video").videoFileName = None
         /\ ~useExistingTranscript(OutputOf("download-video"))
    /\ pc = "failed" =>
         /\ error = Some(MissingInputFile)
         /\ ~Returned("get-transcript")
    /\ \A op \in ProviderCalls \cup {"createWriteStream"} : ~Called(op)

C17_Witness ==
  /\ trigger.exists
  /\ trigger.videoRecord = None
  /\ pc = "failed"
  /\ Returned("download-video")
  /\ log = <<>>

Terminated == pc \in {"done", "failed"}

\* C18: when every external call eventually completes or reports an error,
\* every run terminates, and a terminated run has exactly one outcome: the
\* final output record or one error, which it keeps; a run that has not
\* terminated has neither.
C18_Terminates ==
  /\ <>Terminated
  /\ [](pc = "done" => (result # None /\ error = None))
  /\ [](pc = "failed" => (error # None /\ Len(error) = 1 /\ result = None))
  /\ [](~Terminated => (result = None /\ error = None))
  /\ [][Terminated => UNCHANGED <<pc, result, error>>]_vars

C18_Witness ==
  /\ pc = "done"
  /\ ~trigger.exists
  /\ result # None
  /\ error = None
  /\ Len(log) >= 6

====
